---- MODULE Spec2Model ----
(***************************************************************************)
(* Model of the OBD-II telemetry engine of carHUD (class OBDService):      *)
(* connection lifecycle, ELM327 initialisation, response framing, PID      *)
(* decoding, the polling timer and the publish/subscribe store.            *)
(*                                                                         *)
(* Text is modelled as sequences of one-character strings.  Numeric        *)
(* snapshot fields are integers; the three fields the code rounds to one   *)
(* decimal (fuelRate, mafRate, batteryVoltage) are held in tenths.         *)
(***************************************************************************)
EXTENDS Integers, Sequences, FiniteSets, TLC

VARIABLES
    \* ---- fields of OBDService ----
    device,              \* this.device: "null" or a device
    writeCharacteristic, \* this.writeCharacteristic: "null" or the device owning it
    data,                \* contents of the record this.data refers to
    dataId,              \* identity of the record this.data refers to
    listeners,           \* this.listeners: sequence of observers
    pollingInterval,     \* this.pollingInterval: NoTimer or a timer id
    responseBuffer,      \* this.responseBuffer
    \* ---- runtime and environment ----
    timers,              \* live setInterval timers with their closure variables
    nextTimer,           \* next timer id the runtime hands out
    linked,              \* devices whose link is up
    monitors,            \* devices whose notify characteristic is monitored
    conn,                \* position of the connectToDevice call in flight
    disc,                \* position of the disconnect call in flight
    chunks,              \* notification chunks still to be delivered
    written,             \* commands written since the last connectToDevice call
    handles,             \* observers holding an unsubscribe handle
    scan,                \* the scanForDevices calls and the scan of the BleManager
    \* ---- observations ----
    session,             \* lifecycle state of the session
    held,                \* what each consumer last received
    deliveries,          \* listener calls made by the last step
    decoded,             \* arguments of the parseOBDResponse calls of the last step
    published,           \* number of notifyListeners calls made so far
    lastOp,              \* the last service operation that completed, and how
    sent,                \* the chunks drawn at the start (framing runs)
    data0                \* snapshot at the start (framing runs)

svcVars == <<device, writeCharacteristic, data, dataId, listeners,
             pollingInterval, responseBuffer>>
envVars == <<timers, nextTimer, linked, monitors, conn, disc, chunks, written,
             handles>>
obsVars == <<session, held, deliveries, decoded, published, lastOp, sent, data0>>
vars == <<svcVars, envVars, obsVars, scan>>

----------------------------------------------------------------------------
(* Text                                                                    *)

Whitespace == {" ", "\t", "\n", "\r"}
Terminator == ">"

LowerCase == <<"a","b","c","d","e","f","g","h","i","j","k","l","m",
               "n","o","p","q","r","s","t","u","v","w","x","y","z">>
UpperCase == <<"A","B","C","D","E","F","G","H","I","J","K","L","M",
               "N","O","P","Q","R","S","T","U","V","W","X","Y","Z">>
HexDigits == <<"0","1","2","3","4","5","6","7","8","9","A","B","C","D","E","F">>

\* String.prototype.toUpperCase, one character
UpperOf ==
    [c \in {LowerCase[i] : i \in 1..Len(LowerCase)} |->
        UpperCase[CHOOSE i \in 1..Len(LowerCase) : LowerCase[i] = c]]

ToUpperChar(c) == IF c \in DOMAIN UpperOf THEN UpperOf[c] ELSE c

ToUpperCase(s) == [i \in 1..Len(s) |-> ToUpperChar(s[i])]

\* s.replace(/[\s\r\n]/g, '')
StripWhitespace(s) == SelectSeq(s, LAMBDA c : c \notin Whitespace)

\* String.prototype.substring(a, b), 0-based, end exclusive, clamped
Substring(s, a, b) ==
    LET lo == IF a > Len(s) THEN Len(s) ELSE a
        hi == IF b > Len(s) THEN Len(s) ELSE b
    IN  IF hi <= lo THEN <<>> ELSE SubSeq(s, lo + 1, hi)

StartsWith(s, p) == Len(s) >= Len(p) /\ SubSeq(s, 1, Len(p)) = p

\* String.prototype.trim
RECURSIVE TrimLeft(_)
TrimLeft(s) ==
    IF s # <<>> /\ Head(s) \in Whitespace THEN TrimLeft(Tail(s)) ELSE s

RECURSIVE TrimRight(_)
TrimRight(s) ==
    IF s # <<>> /\ s[Len(s)] \in Whitespace
    THEN TrimRight(SubSeq(s, 1, Len(s) - 1)) ELSE s

Trim(s) == TrimRight(TrimLeft(s))

Includes(s, c) == \E i \in 1..Len(s) : s[i] = c

\* String.prototype.split(sep) for a one-character separator: the segments
\* between separators, empty ones and the one after the last separator included
RECURSIVE SplitFrom(_, _, _)
SplitFrom(s, sep, cur) ==
    IF s = <<>> THEN <<cur>>
    ELSE IF Head(s) = sep THEN <<cur>> \o SplitFrom(Tail(s), sep, <<>>)
    ELSE SplitFrom(Tail(s), sep, Append(cur, Head(s)))

Split(s, sep) == SplitFrom(s, sep, <<>>)

----------------------------------------------------------------------------
(* Numbers                                                                 *)

\* The result of parseInt on text holding no digit, and of arithmetic on it
NaN == 0 - 1000000

HexValue ==
    [c \in {HexDigits[i] : i \in 1..16} |->
        (CHOOSE i \in 1..16 : HexDigits[i] = c) - 1]

IsHex(c) == c \in DOMAIN HexValue
HexVal(c) == HexValue[c]

\* parseInt(digits, 16) after sign and radix prefix: the longest prefix of hex
\* digits, NaN when there is none
RECURSIVE HexPrefix(_, _)
HexPrefix(s, acc) ==
    IF s = <<>> \/ ~IsHex(Head(s)) THEN acc
    ELSE HexPrefix(Tail(s), 16 * acc + HexVal(Head(s)))

ParseDigits16(s) ==
    IF s = <<>> \/ ~IsHex(Head(s)) THEN NaN ELSE HexPrefix(s, 0)

\* parseInt(hex, 16) on upper-cased text without whitespace: optional sign,
\* optional 0X prefix, then hex digits
ParseInt16(s) ==
    LET neg == s # <<>> /\ Head(s) = "-"
        t == IF s # <<>> /\ Head(s) \in {"-", "+"} THEN Tail(s) ELSE s
        u == IF StartsWith(t, <<"0", "X">>) THEN Tail(Tail(t)) ELSE t
        n == ParseDigits16(u)
    IN  IF n = NaN THEN NaN ELSE IF neg THEN 0 - n ELSE n

\* a division that drops the fraction instead of rounding it: Math.floor
RoundDivDown(num, den) == IF num = NaN THEN NaN ELSE num \div den

\* Math.round(num / den) for den > 0: nearest integer, halves upwards
RoundDiv(num, den) ==
    IF num = NaN THEN NaN ELSE (2 * num + den) \div (2 * den)

Plus(a, b) == IF a = NaN \/ b = NaN THEN NaN ELSE a + b
Times(a, b) == IF a = NaN \/ b = NaN THEN NaN ELSE a * b

\* const parsePercent = hex => Math.round(parseInt(hex, 16) * 100 / 255)
parsePercent(hex) == RoundDiv(Times(ParseInt16(hex), 100), 255)

\* const parseTemp = hex => parseInt(hex, 16) - 40
parseTemp(hex) == Plus(ParseInt16(hex), 0 - 40)

\* const parseTwoBytes = hex => 256 * A + B
parseTwoBytes(hex) ==
    LET A == ParseInt16(Substring(hex, 0, 2))
        B == ParseInt16(Substring(hex, 2, 4))
    IN  Plus(Times(256, A), B)

----------------------------------------------------------------------------
(* Telemetry snapshot and PID decoder                                      *)

INITIAL_OBD_DATA ==
    [rpm |-> 0, speed |-> 0, coolantTemp |-> 0, engineLoad |-> 0,
     throttlePosition |-> 0, fuelLevel |-> 0, fuelRate |-> 0,
     fuelPressure |-> 0, intakeAirTemp |-> 0, boostPressure |-> 0,
     mafRate |-> 0, barometricPressure |-> 0, oilTemp |-> 0,
     ambientTemp |-> 0, actualTorque |-> 0, referenceTorque |-> 0,
     acceleratorPosition |-> 0, egrCommanded |-> 0, egrError |-> 0,
     batteryVoltage |-> 0, runTime |-> 0,
     isConnected |-> FALSE, deviceName |-> ""]

\* const clean = response.replace(/[\s\r\n]/g, '').toUpperCase()
Clean(response) == ToUpperCase(StripWhitespace(response))

\* if (!clean.startsWith('41')) return
IsMode01(response) == StartsWith(Clean(response), <<"4", "1">>)

\* the switch (pid) of parseOBDResponse: the snapshot after the assignment the
\* matching case makes, d itself when no case matches or the payload is short
DecodePid(d, pid, dataBytes) ==
    LET one == Substring(dataBytes, 0, 2)
        n == Len(dataBytes)
    IN  CASE pid = <<"0","C">> /\ n >= 4 ->
               [d EXCEPT !.rpm = RoundDiv(parseTwoBytes(dataBytes), 4)]
          [] pid = <<"0","D">> /\ n >= 2 ->
               [d EXCEPT !.speed = ParseInt16(one)]
          [] pid = <<"0","5">> /\ n >= 2 ->
               [d EXCEPT !.coolantTemp = parseTemp(one)]
          [] pid = <<"0","4">> /\ n >= 2 ->
               [d EXCEPT !.engineLoad = parsePercent(one)]
          [] pid = <<"1","1">> /\ n >= 2 ->
               [d EXCEPT !.throttlePosition = parsePercent(one)]
          [] pid = <<"2","F">> /\ n >= 2 ->
               [d EXCEPT !.fuelLevel = parsePercent(one)]
          [] pid = <<"5","E">> /\ n >= 4 ->
               \* Math.round(v / 20 * 10) / 10, in tenths
               [d EXCEPT !.fuelRate = RoundDiv(parseTwoBytes(dataBytes), 2)]
          [] pid = <<"0","A">> /\ n >= 2 ->
               [d EXCEPT !.fuelPressure = Times(ParseInt16(one), 3)]
          [] pid = <<"0","B">> /\ n >= 2 ->
               [d EXCEPT !.boostPressure = ParseInt16(one)]
          [] pid = <<"1","0">> /\ n >= 4 ->
               \* Math.round(v / 100 * 10) / 10, in tenths
               [d EXCEPT !.mafRate = RoundDiv(parseTwoBytes(dataBytes), 10)]
          [] pid = <<"0","F">> /\ n >= 2 ->
               [d EXCEPT !.intakeAirTemp = parseTemp(one)]
          [] pid = <<"3","3">> /\ n >= 2 ->
               [d EXCEPT !.barometricPressure = ParseInt16(one)]
          [] pid = <<"5","C">> /\ n >= 2 ->
               [d EXCEPT !.oilTemp = parseTemp(one)]
          [] pid = <<"4","6">> /\ n >= 2 ->
               [d EXCEPT !.ambientTemp = parseTemp(one)]
          [] pid = <<"6","2">> /\ n >= 2 ->
               [d EXCEPT !.actualTorque = Plus(ParseInt16(one), 0 - 125)]
          [] pid = <<"6","3">> /\ n >= 4 ->
               [d EXCEPT !.referenceTorque = parseTwoBytes(dataBytes)]
          [] pid = <<"4","9">> /\ n >= 2 ->
               [d EXCEPT !.acceleratorPosition = parsePercent(one)]
          [] pid = <<"2","C">> /\ n >= 2 ->
               [d EXCEPT !.egrCommanded = parsePercent(one)]
          [] pid = <<"2","D">> /\ n >= 2 ->
               [d EXCEPT !.egrError =
                    RoundDiv(Times(Plus(ParseInt16(one), 0 - 128), 100), 128)]
          [] pid = <<"4","2">> /\ n >= 4 ->
               \* Math.round(v / 100) / 10, in tenths
               [d EXCEPT !.batteryVoltage = RoundDiv(parseTwoBytes(dataBytes), 100)]
          [] pid = <<"1","F">> /\ n >= 4 ->
               [d EXCEPT !.runTime = parseTwoBytes(dataBytes)]
          [] OTHER -> d

\* a parser that builds the snapshot anew around the decoded field
parseOBDResponseFresh(d, response) ==
    LET clean == Clean(response)
    IN  IF ~StartsWith(clean, <<"4", "1">>) THEN d
        ELSE DecodePid(INITIAL_OBD_DATA, Substring(clean, 2, 4),
                       Substring(clean, 4, Len(clean)))

\* parseOBDResponse up to its notifyListeners call: the snapshot it leaves
parseOBDResponse(d, response) ==
    LET clean == Clean(response)
    IN  IF ~StartsWith(clean, <<"4", "1">>) THEN d
        ELSE DecodePid(d, Substring(clean, 2, 4), Substring(clean, 4, Len(clean)))

----------------------------------------------------------------------------
(* Store and distributor                                                   *)

NumObs == 2
Obs == 1..NumObs

\* What a listener does when it is called: NoAct = nothing, k in Obs = calls
\* the unsubscribe handle of observer k's subscription
NoAct == NumObs + 1
\* the listener throws
Throws == NumObs + 2

\* a handle that leaves the listener array as it is
UnsubscribedNobody(ls, o) == ls

\* the closure subscribe returns:
\* this.listeners = this.listeners.filter(l => l !== listener)
Unsubscribed(ls, o) == SelectSeq(ls, LAMBDA l : l # o)

\* listener({ ...this.data }): a copy; listener(this.data): the live record
Copy(o, d) == [to |-> o, val |-> d, live |-> FALSE]
LiveRef(o, d) == [to |-> o, val |-> d, live |-> TRUE]

\* a listener call as observed: who was called, with what, from where
Call(ref, via) == [to |-> ref.to, val |-> ref.val, live |-> ref.live, via |-> via]

\* a loop that reads this.listeners again at every step
IteratedCurrent(arr, cur) == cur

\* Array.prototype.forEach visits the array it was called on, although a
\* callback may have put another array into this.listeners meanwhile
IteratedArray(arr, cur) == arr

\* notifyListeners: this.listeners.forEach(listener => listener({ ...this.data }))
\* from position i on; plan[o] is what o's callback does.  Yields the listener
\* array the service is left with and the calls made, in order; a listener
\* that throws ends the loop, and the error leaves notifyListeners.
RECURSIVE ForEachListener(_, _, _, _, _, _)
ForEachListener(arr, i, cur, d, plan, acc) ==
    IF i > Len(arr) THEN [listeners |-> cur, deliveries |-> acc, thrown |-> FALSE]
    ELSE LET o == arr[i]
             cur2 == IF plan[o] \in {NoAct, Throws} THEN cur
                     ELSE Unsubscribed(cur, plan[o])
             acc2 == Append(acc, Call(Copy(o, d), "publish"))
         IN  IF plan[o] = Throws
             THEN [listeners |-> cur, deliveries |-> acc2, thrown |-> TRUE]
             ELSE ForEachListener(IteratedArray(arr, cur2), i + 1, cur2, d, plan, acc2)

notifyListeners(ls, d, plan) == ForEachListener(ls, 1, ls, d, plan, <<>>)

\* a loop that takes the segments last to first
RECURSIVE LineOrderReversed(_)
LineOrderReversed(lines) ==
    IF lines = <<>> THEN <<>>
    ELSE Append(LineOrderReversed(Tail(lines)), Head(lines))

\* the order in which handleResponse takes the segments: for (const line of lines)
LineOrder(lines) == lines

\* the loop of handleResponse: parseOBDResponse(line.trim()) for each line,
\* each Mode-01 line ending in notifyListeners; an error thrown by a listener
\* ends the loop
RECURSIVE ParseLines(_, _, _, _, _, _, _)
ParseLines(lines, d, ls, plan, dels, decs, n) ==
    IF lines = <<>>
    THEN [data |-> d, listeners |-> ls, deliveries |-> dels, decoded |-> decs,
          publishes |-> n, thrown |-> FALSE]
    ELSE LET response == Trim(Head(lines))
             d2 == parseOBDResponse(d, response)
             pub == IF IsMode01(response)
                    THEN notifyListeners(ls, d2, plan)
                    ELSE [listeners |-> ls, deliveries |-> <<>>, thrown |-> FALSE]
             n2 == IF IsMode01(response) THEN n + 1 ELSE n
         IN  IF pub.thrown
             THEN [data |-> d2, listeners |-> pub.listeners,
                   deliveries |-> dels \o pub.deliveries,
                   decoded |-> Append(decs, response), publishes |-> n2,
                   thrown |-> TRUE]
             ELSE ParseLines(Tail(lines), d2, pub.listeners, plan,
                             dels \o pub.deliveries, Append(decs, response), n2)

\* an assembler that forgets what it held: this.responseBuffer = response
AppendedDropping(buf, chunk) == chunk

\* this.responseBuffer += response
Appended(buf, chunk) == buf \o chunk

\* handleResponse(chunk): the buffer, snapshot and listener array it leaves,
\* the listener calls and the parseOBDResponse calls it makes; when a listener
\* throws, the assignment this.responseBuffer = '' is not reached
handleResponse(buf, d, ls, chunk, plan) ==
    LET b == Appended(buf, chunk)
    IN  IF Includes(b, Terminator)
        THEN LET r == ParseLines(LineOrder(Split(b, Terminator)), d, ls, plan,
                                 <<>>, <<>>, 0)
             IN  [responseBuffer |-> IF r.thrown THEN b ELSE <<>>, data |-> r.data,
                  listeners |-> r.listeners, deliveries |-> r.deliveries,
                  decoded |-> r.decoded, publishes |-> r.publishes]
        ELSE [responseBuffer |-> b, data |-> d, listeners |-> ls,
              deliveries |-> <<>>, decoded |-> <<>>, publishes |-> 0]

\* What a consumer holds: nothing, a copy, or a reference to a record that is
\* or was the store's live one (id names the record; val is its contents once
\* the store has replaced it)
NoRef == [kind |-> "none", id |-> 0, val |-> INITIAL_OBD_DATA]
CopyRef(d) == [kind |-> "copy", id |-> 0, val |-> d]

\* the references the consumers hold after the listener calls dels
RECURSIVE Received(_, _, _)
Received(h, dels, id) ==
    IF dels = <<>> THEN h
    ELSE LET c == Head(dels)
             r == IF c.live
                  THEN [kind |-> "live", id |-> id, val |-> INITIAL_OBD_DATA]
                  ELSE CopyRef(c.val)
         IN  Received([h EXCEPT ![c.to] = r], Tail(dels), id)

\* this.data = { ...INITIAL_OBD_DATA }: consumers holding the old record keep it
Detached(h, id, d) ==
    [o \in DOMAIN h |->
        IF h[o].kind = "live" /\ h[o].id = id THEN [h[o] EXCEPT !.val = d]
        ELSE h[o]]

FreshId(h) ==
    CHOOSE n \in 0..(NumObs + 1) :
        /\ \A o \in DOMAIN h : ~(h[o].kind = "live" /\ h[o].id = n)
        /\ \A m \in 0..(n - 1) : \E o \in DOMAIN h : h[o].kind = "live" /\ h[o].id = m

----------------------------------------------------------------------------
(* Devices, adapter commands and the poll queues                           *)

Devices == {"d1", "d2"}
\* devices exposing a characteristic with isWritableWithResponse or
\* isWritableWithoutResponse, and one with isNotifiable
Writable == {"d1"}
Notifiable == {"d1", "d2"}
\* device.name ?? 'Unknown Device'
DeviceName(d) == IF d = "d1" THEN "OBDII" ELSE "Unknown Device"

NoTimer == 0

InitCommands == <<"ATZ", "ATE0", "ATL0", "ATS0", "ATH0", "ATSP0">>

priorityPids == <<"010C", "010D", "010B", "0111">>
secondaryPids == <<"0105", "015C", "015E", "012F", "010F", "0146", "0162",
                   "012C", "0142">>

\* let priorityIndex = 0; let secondaryIndex = 0; let cycleCount = 0;
\* pending counts the interval callbacks waiting in sendCommand, per queue
\* overlapped records that a callback ran while an earlier one was waiting
NewTimer ==
    [priorityIndex |-> 0, secondaryIndex |-> 0, cycleCount |-> 0,
     pendingP |-> 0, pendingS |-> 0, overlapped |-> FALSE]

\* a poller that takes the secondary queue one tick late
UsesSecondaryLate(cycleCount) == cycleCount % 5 = 0 /\ cycleCount > 0

\* cycleCount % 5 === 4 && secondaryPids.length > 0
UsesSecondary(cycleCount) == cycleCount % 5 = 4 /\ Len(secondaryPids) > 0

\* the PID the interval callback passes to sendCommand
TickPid(tm) ==
    IF UsesSecondary(tm.cycleCount) THEN secondaryPids[tm.secondaryIndex + 1]
    ELSE priorityPids[tm.priorityIndex + 1]

\* a callback that moves both cursors on every tick
AdvancedBoth(tm, q) ==
    [tm EXCEPT !.secondaryIndex = (tm.secondaryIndex + 1) % Len(secondaryPids),
               !.priorityIndex = (tm.priorityIndex + 1) % Len(priorityPids),
               !.cycleCount = tm.cycleCount + 1]

\* a callback that leaves the secondary cursor where it is
AdvancedPriorityOnly(tm, q) ==
    IF q = "s"
    THEN [tm EXCEPT !.cycleCount = tm.cycleCount + 1]
    ELSE [tm EXCEPT !.priorityIndex = (tm.priorityIndex + 1) % Len(priorityPids),
                    !.cycleCount = tm.cycleCount + 1]

\* after the await: the cursor of the queue that was used moves on and wraps,
\* cycleCount++
Advanced(tm, q) ==
    IF q = "s"
    THEN [tm EXCEPT !.secondaryIndex = (tm.secondaryIndex + 1) % Len(secondaryPids),
                    !.cycleCount = tm.cycleCount + 1]
    ELSE [tm EXCEPT !.priorityIndex = (tm.priorityIndex + 1) % Len(priorityPids),
                    !.cycleCount = tm.cycleCount + 1]

\* stopPolling: clearInterval(this.pollingInterval), when it is set
StoppedTimers(tms, handle) ==
    IF handle = NoTimer THEN tms
    ELSE [t \in DOMAIN tms \ {handle} |-> tms[t]]

Idle == [pc |-> "idle", dev |-> "null", step |-> 0]

Quiet == deliveries' = <<>> /\ decoded' = <<>> /\ published' = published
NoPlan == [o \in Obs |-> NoAct]
Range(seq) == {seq[i] : i \in DOMAIN seq}
\* what the callbacks of the registered listeners may do: each calls nothing or
\* the handle of a registered subscription (a handle of an observer that is
\* not registered changes nothing, and an observer that is not registered
\* is not called)
Plans ==
    {p \in [Obs -> {NoAct} \cup Obs] :
        \A o \in Obs : p[o] = NoAct \/ (o \in Range(listeners) /\ p[o] \in Range(listeners))}

\* no scanForDevices call yet: the BleManager scans for nobody (active = 0),
\* no promise, no timeout armed
NoScan == [active |-> 0, calls |-> <<>>, found |-> <<>>, armed |-> {},
           stopped |-> {}, expired |-> {}]

\* the state a constructed OBDService is in before any call
Constructed ==
    /\ scan = NoScan
    /\ device = "null" /\ writeCharacteristic = "null"
    /\ data = INITIAL_OBD_DATA /\ dataId = 0
    /\ listeners = <<>> /\ pollingInterval = NoTimer /\ responseBuffer = <<>>
    /\ timers = <<>> /\ nextTimer = 1
    /\ linked = {} /\ monitors = {}
    /\ conn = Idle /\ disc = Idle
    /\ written = <<>> /\ handles = {}
    /\ session = "unconnected"
    /\ held = [o \in Obs |-> NoRef]
    /\ deliveries = <<>> /\ decoded = <<>> /\ published = 0
    /\ lastOp = "none"

\* the snapshot connectToDevice("d1") leaves
ConnectedData ==
    [INITIAL_OBD_DATA EXCEPT !.isConnected = TRUE, !.deviceName = DeviceName("d1")]

\* the state connectToDevice("d1") leaves when every step of it succeeds, the
\* snapshot aside
ConnectedService ==
    /\ scan = NoScan
    /\ device = "d1" /\ writeCharacteristic = "d1"
    /\ dataId = 0
    /\ listeners = <<>> /\ pollingInterval = 1 /\ responseBuffer = <<>>
    /\ timers = (1 :> NewTimer) /\ nextTimer = 2
    /\ linked = {"d1"} /\ monitors = {"d1"}
    /\ conn = Idle /\ disc = Idle
    /\ written = InitCommands /\ handles = {}
    /\ session = "polling"
    /\ held = [o \in Obs |-> NoRef]
    /\ deliveries = <<>> /\ decoded = <<>> /\ published = 1
    /\ lastOp = "connect_ok"

Connected == ConnectedService /\ data = ConnectedData

----------------------------------------------------------------------------
(* connectToDevice                                                         *)

frameVars == <<chunks, sent, data0, scan>>

\* connectToDevice(d) up to its first await: device.connect() is under way
ConnectCall(d) ==
    /\ conn.pc = "idle"
    /\ conn' = [pc |-> "connecting", dev |-> d, step |-> 0]
    /\ written' = <<>>
    /\ session' = "connecting"
    /\ lastOp' = "other"
    /\ Quiet
    /\ UNCHANGED <<svcVars, timers, nextTimer, linked, monitors, disc, handles,
                   held, frameVars>>

\* this.device = await device.connect(); discovery is under way
ConnectOk ==
    /\ conn.pc = "connecting"
    /\ device' = conn.dev
    /\ linked' = linked \cup {conn.dev}
    /\ conn' = [conn EXCEPT !.pc = "discovering"]
    /\ lastOp' = "other"
    /\ Quiet
    /\ UNCHANGED <<writeCharacteristic, data, dataId, listeners, pollingInterval,
                   responseBuffer, timers, nextTimer, monitors, disc, written,
                   handles, session, held, frameVars>>

\* an await of connectToDevice rejects: catch (error) { ...; throw error }
ConnectThrows ==
    /\ conn' = Idle
    /\ session' = "unconnected"
    /\ lastOp' = "connect_err"
    /\ Quiet
    /\ UNCHANGED <<svcVars, timers, nextTimer, linked, monitors, disc, written,
                   handles, held, frameVars>>

ConnectFail == conn.pc = "connecting" /\ ConnectThrows

DiscoverFail == conn.pc = "discovering" /\ ConnectThrows

\* lines 444-449: isConnected = true, deviceName, notifyListeners, startPolling
\* (this.pollingInterval = setInterval(...), whatever it held before)
FinishConnect ==
    LET d == [data EXCEPT !.isConnected = TRUE, !.deviceName = DeviceName(conn.dev)]
        pub == notifyListeners(listeners, d, NoPlan)
    IN  /\ data' = d
        /\ listeners' = pub.listeners
        /\ deliveries' = pub.deliveries
        /\ decoded' = <<>>
        /\ published' = published + 1
        /\ held' = Received(held, pub.deliveries, dataId)
        /\ timers' = timers @@ (nextTimer :> NewTimer)
        /\ pollingInterval' = nextTimer
        /\ nextTimer' = nextTimer + 1
        /\ conn' = Idle
        /\ session' = "polling"
        /\ lastOp' = "connect_ok"
        /\ UNCHANGED <<device, writeCharacteristic, dataId, responseBuffer,
                       linked, monitors, disc, written, handles, frameVars>>

\* sendCommand(InitCommands[k]) with a write characteristic: the write is issued
IssueInit(k) ==
    /\ written' = Append(written, InitCommands[k])
    /\ conn' = [conn EXCEPT !.pc = "writing", !.step = k]
    /\ lastOp' = "other"
    /\ Quiet
    /\ UNCHANGED <<svcVars, timers, nextTimer, linked, monitors, disc, handles,
                   session, held, frameVars>>

\* initializeAdapter from command k (2..7) on: sendCommand returns at once
\* while there is no write characteristic, so the rest is skipped
ContinueInit(k) ==
    IF k > Len(InitCommands) \/ writeCharacteristic = "null"
    THEN FinishConnect
    ELSE IssueInit(k)

\* discovery done: the characteristics are taken, initializeAdapter starts
DiscoverOk ==
    /\ conn.pc = "discovering"
    /\ LET wc == IF conn.dev \in Writable THEN conn.dev ELSE writeCharacteristic
       IN  /\ writeCharacteristic' = wc
           /\ monitors' = IF conn.dev \in Notifiable THEN monitors \cup {conn.dev}
                          ELSE monitors
           /\ IF wc = "null"
              THEN conn' = [conn EXCEPT !.pc = "delay", !.step = 1]
                   /\ written' = written
              ELSE conn' = [conn EXCEPT !.pc = "writing", !.step = 1]
                   /\ written' = Append(written, InitCommands[1])
    /\ session' = "initializing"
    /\ lastOp' = "other"
    /\ Quiet
    /\ UNCHANGED <<device, data, dataId, listeners, pollingInterval,
                   responseBuffer, timers, nextTimer, linked, disc, handles,
                   held, frameVars>>

\* the write of an initialisation command resolves
InitWriteOk ==
    /\ conn.pc = "writing"
    /\ IF conn.step = 1
       THEN /\ conn' = [conn EXCEPT !.pc = "delay"]
            /\ lastOp' = "other"
            /\ Quiet
            /\ UNCHANGED <<svcVars, timers, nextTimer, linked, monitors, disc,
                           written, handles, session, held, frameVars>>
       ELSE ContinueInit(conn.step + 1)

InitWriteFail == conn.pc = "writing" /\ ConnectThrows

\* await this.delay(1000) after ATZ is over
DelayDone ==
    /\ conn.pc = "delay"
    /\ ContinueInit(2)

----------------------------------------------------------------------------
(* The polling timer                                                       *)

\* the setInterval callback of timer t fires (while its closure is at
\* cycleCount < bound, fewer than logBound commands are on record and fewer
\* than pendBound earlier callbacks are waiting for their write)
Tick(t, bound, logBound, pendBound) ==
    /\ t \in DOMAIN timers
    /\ timers[t].cycleCount < bound
    /\ Len(written) < logBound
    /\ timers[t].pendingP + timers[t].pendingS < pendBound
    /\ LET tm == timers[t]
           q == IF UsesSecondary(tm.cycleCount) THEN "s" ELSE "p"
       IN  IF ~data.isConnected
           THEN UNCHANGED <<timers, written>>
           ELSE IF writeCharacteristic = "null"
           THEN \* sendCommand returns without writing; the callback runs on
                /\ timers' = [timers EXCEPT ![t] = Advanced(tm, q)]
                /\ written' = written
           ELSE \* writeWithResponse is called; the callback waits for it
                /\ written' = Append(written, TickPid(tm))
                /\ timers' = [timers EXCEPT ![t] =
                       LET o == tm.overlapped \/ tm.pendingP + tm.pendingS > 0
                       IN  IF q = "s"
                           THEN [tm EXCEPT !.pendingS = tm.pendingS + 1,
                                           !.overlapped = o]
                           ELSE [tm EXCEPT !.pendingP = tm.pendingP + 1,
                                           !.overlapped = o]]
    /\ Quiet
    /\ UNCHANGED <<svcVars, nextTimer, linked, monitors, conn, disc, handles,
                   session, held, lastOp, frameVars>>

Pending(tm, q) == IF q = "s" THEN tm.pendingS ELSE tm.pendingP
\* a callback that moved its cursor and cycleCount on in a finally clause
SettledAdvancing(tm, q) ==
    Advanced(IF q = "s" THEN [tm EXCEPT !.pendingS = tm.pendingS - 1]
             ELSE [tm EXCEPT !.pendingP = tm.pendingP - 1], q)

\* the awaited write of a callback settles
Settled(tm, q) ==
    IF q = "s" THEN [tm EXCEPT !.pendingS = tm.pendingS - 1]
    ELSE [tm EXCEPT !.pendingP = tm.pendingP - 1]

\* the write of a tick resolves: the callback advances its cursor and cycleCount
TickWriteOk(t, q) ==
    /\ t \in DOMAIN timers
    /\ Pending(timers[t], q) > 0
    /\ timers' = [timers EXCEPT ![t] = Advanced(Settled(timers[t], q), q)]
    /\ Quiet
    /\ UNCHANGED <<svcVars, nextTimer, linked, monitors, conn, disc, written,
                   handles, session, held, lastOp, frameVars>>

\* the write of a tick rejects: the callback ends there
TickWriteFail(t, q) ==
    /\ t \in DOMAIN timers
    /\ Pending(timers[t], q) > 0
    /\ timers' = [timers EXCEPT ![t] = Settled(timers[t], q)]
    /\ Quiet
    /\ UNCHANGED <<svcVars, nextTimer, linked, monitors, conn, disc, written,
                   handles, session, held, lastOp, frameVars>>

----------------------------------------------------------------------------
(* disconnect                                                              *)

\* lines 705-707: writeCharacteristic = null, this.data = { ...INITIAL_OBD_DATA },
\* notifyListeners
ResetAndPublish(plan) ==
    LET h == Detached(held, dataId, data)
        id == FreshId(h)
        pub == notifyListeners(listeners, INITIAL_OBD_DATA, plan)
    IN  /\ writeCharacteristic' = "null"
        /\ data' = INITIAL_OBD_DATA
        /\ dataId' = id
        /\ listeners' = pub.listeners
        /\ deliveries' = pub.deliveries
        /\ decoded' = <<>>
        /\ published' = published + 1
        /\ held' = Received(h, pub.deliveries, id)
        /\ disc' = Idle
        /\ session' = "unconnected"
        /\ lastOp' = "disconnect_ok"

\* disconnect(): stopPolling, then cancelConnection is awaited when a device is
\* held; with no device the call runs to its end
DisconnectCall(plan) ==
    /\ disc.pc = "idle"
    /\ timers' = StoppedTimers(timers, pollingInterval)
    /\ pollingInterval' = NoTimer
    /\ IF device # "null"
       THEN /\ disc' = [pc |-> "cancelling", dev |-> device, step |-> 0]
            /\ session' = "disconnecting"
            /\ lastOp' = "other"
            /\ Quiet
            /\ UNCHANGED <<device, writeCharacteristic, data, dataId, listeners,
                           held>>
       ELSE /\ ResetAndPublish(plan)
            /\ UNCHANGED device
    /\ UNCHANGED <<responseBuffer, nextTimer, linked, monitors, conn, written,
                   handles, frameVars>>

\* cancelConnection resolves: this.device = null and the rest of disconnect
CancelOk(plan) ==
    /\ disc.pc = "cancelling"
    /\ linked' = linked \ {disc.dev}
    /\ monitors' = monitors \ {disc.dev}
    /\ device' = "null"
    /\ ResetAndPublish(plan)
    /\ UNCHANGED <<pollingInterval, responseBuffer, timers, nextTimer, conn,
                   written, handles, frameVars>>

\* cancelConnection rejects: disconnect throws where it stands
CancelFail ==
    /\ disc.pc = "cancelling"
    /\ disc' = Idle
    /\ session' = "faulted"
    /\ lastOp' = "disconnect_err"
    /\ Quiet
    /\ UNCHANGED <<svcVars, timers, nextTimer, linked, monitors, conn, written,
                   handles, held, frameVars>>

\* the link to device d drops; its monitor ends with an error, which the
\* monitor callback only logs
LinkLost(d) ==
    /\ d \in linked
    /\ linked' = linked \ {d}
    /\ monitors' = monitors \ {d}
    /\ session' = IF device = d /\ session # "unconnected" THEN "faulted" ELSE session
    /\ Quiet
    /\ UNCHANGED <<svcVars, timers, nextTimer, conn, disc, written, handles,
                   held, lastOp, frameVars>>

----------------------------------------------------------------------------
(* Notifications and the store's interface                                 *)

\* the monitor callback: if (characteristic?.value) this.handleResponse(value)
Monitored(buf, d, ls, chunk, plan) ==
    IF chunk = <<>>
    THEN [responseBuffer |-> buf, data |-> d, listeners |-> ls,
          deliveries |-> <<>>, decoded |-> <<>>, publishes |-> 0]
    ELSE handleResponse(buf, d, ls, chunk, plan)

\* the monitor of device d receives a chunk
Notification(d, chunk, plan) ==
    /\ d \in monitors /\ d \in linked
    /\ \E r \in {Monitored(responseBuffer, data, listeners, chunk, plan)} :
           /\ responseBuffer' = r.responseBuffer
           /\ data' = r.data
           /\ listeners' = r.listeners
           /\ deliveries' = r.deliveries
           /\ decoded' = r.decoded
           /\ published' = published + r.publishes
           /\ held' = Received(held, r.deliveries, dataId)
    /\ UNCHANGED <<device, writeCharacteristic, dataId, pollingInterval, timers,
                   nextTimer, linked, monitors, conn, disc, written, handles,
                   session, lastOp, sent, data0, scan>>

MaxListeners == 2

\* what subscribe hands to the listener: listener(this.data)
Delivered(o, d) == LiveRef(o, d)

\* subscribe(o): push, listener(this.data), return the unsubscribe closure;
\* act is what the listener does in that first call
Subscribe(o, act) ==
    /\ Len(listeners) < MaxListeners
    /\ act = NoAct \/ act \in handles
    /\ LET dl == Delivered(o, data)
           ls == Append(listeners, o)
       IN  /\ listeners' = IF act = NoAct THEN ls ELSE Unsubscribed(ls, act)
           /\ deliveries' = <<Call(dl, "subscribe")>>
           /\ held' = Received(held, <<dl>>, dataId)
    /\ decoded' = <<>>
    /\ published' = published
    /\ handles' = handles \cup {o}
    /\ lastOp' = "other"
    /\ UNCHANGED <<device, writeCharacteristic, data, dataId, pollingInterval,
                   responseBuffer, timers, nextTimer, linked, monitors, conn,
                   disc, written, session, frameVars>>

\* a consumer calls the unsubscribe closure of o's subscription
UnsubscribeCall(o) ==
    /\ o \in handles
    /\ listeners' = Unsubscribed(listeners, o)
    /\ lastOp' = "other"
    /\ Quiet
    /\ UNCHANGED <<device, writeCharacteristic, data, dataId, pollingInterval,
                   responseBuffer, envVars, session, held, sent, data0, scan>>

\* getData(): return { ...this.data }
GetData(o) ==
    /\ held' = [held EXCEPT ![o] = CopyRef(data)]
    /\ lastOp' = "other"
    /\ Quiet
    /\ UNCHANGED <<svcVars, envVars, session, sent, data0, scan>>

MutRpm == 7777

\* consumer o writes a field of the record it holds
ConsumerMutate(o) ==
    /\ held[o].kind # "none"
    /\ IF held[o].kind = "live" /\ held[o].id = dataId
       THEN /\ data.rpm # MutRpm
            /\ data' = [data EXCEPT !.rpm = MutRpm]
            /\ held' = held
       ELSE /\ held[o].val.rpm # MutRpm
            /\ data' = data
            /\ held' = [c \in Obs |->
                  IF c = o \/ (held[o].kind = "live" /\ held[c].kind = "live"
                               /\ held[c].id = held[o].id)
                  THEN [held[c] EXCEPT !.val.rpm = MutRpm]
                  ELSE held[c]]
    /\ Quiet
    /\ UNCHANGED <<device, writeCharacteristic, dataId, listeners,
                   pollingInterval, responseBuffer, envVars, session, lastOp,
                   sent, data0, scan>>

----------------------------------------------------------------------------
(* The session lifecycle                                                   *)

MaxTimers == 2
LifeTicks == 1
LifeLog == 7
LifePending == 1

LifeDevices == {"d1"}
LifePublished == 3


Init ==
    /\ Constructed
    /\ chunks = <<>> /\ sent = <<>> /\ data0 = INITIAL_OBD_DATA

Next ==
    \/ \E d \in LifeDevices : nextTimer <= MaxTimers /\ ConnectCall(d)
    \/ ConnectOk
    \/ ConnectFail
    \/ DiscoverOk
    \/ DiscoverFail
    \/ InitWriteOk
    \/ InitWriteFail
    \/ DelayDone
    \/ published < LifePublished /\ DisconnectCall(NoPlan)
    \/ CancelOk(NoPlan)
    \/ CancelFail
    \/ \E d \in Devices : LinkLost(d)
    \/ \E t \in DOMAIN timers : Tick(t, LifeTicks, LifeLog, LifePending)
    \/ \E t \in DOMAIN timers, q \in {"p", "s"} : TickWriteOk(t, q)
    \/ \E t \in DOMAIN timers, q \in {"p", "s"} : TickWriteFail(t, q)

Spec == Init /\ [][Next]_vars

----------------------------------------------------------------------------
(* Claims about the session lifecycle                                      *)

SessionReady == session \in {"ready", "polling"}

\* C1: in every reachable state the snapshot's isConnected is true exactly
\* when the session is in the ready or polling state (false while unconnected,
\* connecting, initializing, disconnecting or faulted).
C1_IsConnectedIffReady == data.isConnected <=> SessionReady

\* C2: at most one session is active, so at most one polling timer is ever
\* running, and none is once a disconnect has completed.
C2_AtMostOneTimer ==
    /\ Cardinality(DOMAIN timers) <= 1
    /\ lastOp = "disconnect_ok" => DOMAIN timers = {}

\* C11: a disconnect() never fails, also when cancelling the link fails:
\* whenever a disconnect() has ended, it ended without error, the polling
\* timer handle, the device and the write characteristic are cleared and the
\* snapshot is the reset one, with isConnected false.
C11_DisconnectSucceedsLocally ==
    lastOp \in {"disconnect_ok", "disconnect_err"} =>
        /\ lastOp = "disconnect_ok"
        /\ pollingInterval = NoTimer
        /\ device = "null"
        /\ writeCharacteristic = "null"
        /\ data = INITIAL_OBD_DATA

\* a command that is a PID query of one of the poll queues
IsQuery(c) ==
    \/ \E i \in DOMAIN priorityPids : priorityPids[i] = c
    \/ \E j \in DOMAIN secondaryPids : secondaryPids[j] = c

\* C16: a PID query is handed to the transport only in a state where the
\* session is ready or polling: not while a connection is being set up, not
\* after disconnect() has been called, not in a faulted session.
C16_QueriesOnlyWhenReady ==
    [][ (Len(written') = Len(written) + 1 /\ IsQuery(written'[Len(written')]))
            => SessionReady ]_vars

----------------------------------------------------------------------------
(* Sessions that receive data                                              *)

SessionTicks == 1
SessionPublished == 4
SessionBuffer == 6

\* the start of a speed reply, its end, and a reply that is no Mode-01 reply
SessionChunks ==
    { <<"4", "1", "0", "D">>,
      <<"1", "E", ">">>,
      <<"N", "O", "D", "A", "T", "A", ">">> }

SessionLog == Len(InitCommands) + SessionTicks

NextSession ==
    \/ nextTimer <= MaxTimers /\ ConnectCall("d1")
    \/ ConnectOk
    \/ DiscoverOk
    \/ InitWriteOk
    \/ DelayDone
    \/ published < SessionPublished /\ DisconnectCall(NoPlan)
    \/ CancelOk(NoPlan)
    \/ \E c \in SessionChunks :
           /\ published < SessionPublished
           /\ Len(responseBuffer) + Len(c) <= SessionBuffer + 1
           /\ Notification("d1", c, NoPlan)
           /\ UNCHANGED chunks
    \/ \E t \in DOMAIN timers : Tick(t, SessionTicks, SessionLog, 1)
    \/ \E t \in DOMAIN timers, q \in {"p", "s"} : TickWriteOk(t, q)
    \/ \E t \in DOMAIN timers, q \in {"p", "s"} : TickWriteFail(t, q)

SpecSession == Init /\ [][NextSession]_vars

----------------------------------------------------------------------------
(* The poller of one ready session                                         *)

MaxTicks == 10
MaxPending == 1
\* room on record for the initialisation commands, MaxTicks queries and a
\* repeated one
PollLog == Len(InitCommands) + MaxTicks + 1

InitPoll ==
    /\ Connected
    /\ chunks = <<>> /\ sent = <<>> /\ data0 = INITIAL_OBD_DATA

NextPoll ==
    \/ \E t \in DOMAIN timers : Tick(t, MaxTicks, PollLog, MaxPending)
    \/ \E t \in DOMAIN timers, q \in {"p", "s"} : TickWriteOk(t, q)
    \/ \E t \in DOMAIN timers, q \in {"p", "s"} : TickWriteFail(t, q)

SpecPoll == InitPoll /\ [][NextPoll]_vars

\* the queries written by the ticks, in order
Polled == SubSeq(written, Len(InitCommands) + 1, Len(written))

First(seq, n) == SubSeq(seq, 1, IF Len(seq) < n THEN Len(seq) ELSE n)

\* every write so far completed, and did so before the next tick
InStep(tm) ==
    /\ ~tm.overlapped
    /\ Len(Polled) = tm.cycleCount + tm.pendingP + tm.pendingS

PidA == priorityPids[1]
PidB == priorityPids[2]
PidC == priorityPids[3]
PidD == priorityPids[4]
PidE == secondaryPids[1]
PidF == secondaryPids[2]

\* C6 as stated: ticks 0 through 9 query A,B,C,D,A,E,B,C,D,A.
C6_Original ==
    InStep(timers[1]) =>
        First(Polled, 10) =
            First(<<PidA, PidB, PidC, PidD, PidA, PidE, PidB, PidC, PidD, PidA>>,
                  Len(Polled))

\* C6 amended: with A,B,C,D the priority queue and E,F the first two PIDs of
\* the secondary queue, ticks 0 through 9 of a freshly started poller whose
\* writes each complete before the next tick query A,B,C,D,E,A,B,C,D,F.
C6_TickOrder ==
    InStep(timers[1]) =>
        First(Polled, 10) =
            First(<<PidA, PidB, PidC, PidD, PidE, PidA, PidB, PidC, PidD, PidF>>,
                  Len(Polled))

C6_Witness ==
    /\ InStep(timers[1])
    /\ timers[1].cycleCount = 10
    /\ Len(Polled) = 10

----------------------------------------------------------------------------
(* The poller over more than one round of both queues                      *)

CycleTicks == 50
\* room on record for the initialisation commands, CycleTicks queries and a
\* repeated one
CycleLog == Len(InitCommands) + CycleTicks + 1

\* one callback at a time: a tick fires only when no write is outstanding;
\* at most one write of the run is rejected
NextCycle ==
    \/ \E t \in DOMAIN timers : Tick(t, CycleTicks, CycleLog, 1)
    \/ \E t \in DOMAIN timers, q \in {"p", "s"} : TickWriteOk(t, q)
    \/ \E t \in DOMAIN timers, q \in {"p", "s"} :
           Len(written) = Len(InitCommands) + timers[t].cycleCount + 1 /\ TickWriteFail(t, q)

SpecCycle == InitPoll /\ [][NextCycle]_vars

\* the query of the tick with cycle counter c when every earlier tick's write
\* completed: of c ticks, c \div 5 went to the secondary queue
Scheduled(c) ==
    IF c % 5 = 4
    THEN secondaryPids[((c \div 5) % Len(secondaryPids)) + 1]
    ELSE priorityPids[((c - (c \div 5)) % Len(priorityPids)) + 1]

\* C14: while every write completes before the next tick, the tick with cycle
\* counter c queries the secondary queue when c mod 5 = 4 and the priority
\* queue otherwise, each queue is taken in its listed order and wraps after
\* its last element, and the cycle counter is the number of completed ticks.
C14_CycleSchedule ==
    InStep(timers[1]) =>
        LET tm == timers[1]
            c == Len(Polled)
        IN  /\ \A i \in DOMAIN Polled : Polled[i] = Scheduled(i - 1)
            /\ tm.cycleCount = c - (tm.pendingP + tm.pendingS)
            /\ (tm.pendingP + tm.pendingS = 0) =>
                   /\ tm.secondaryIndex = (c \div 5) % Len(secondaryPids)
                   /\ tm.priorityIndex = (c - (c \div 5)) % Len(priorityPids)

\* fifty ticks in step: the secondary queue has been through its nine PIDs
\* and starts again
C14_Witness ==
    /\ InStep(timers[1])
    /\ timers[1].cycleCount = 50
    /\ Polled[45] = secondaryPids[9]
    /\ Polled[50] = secondaryPids[1]
    /\ Polled[6] = priorityPids[1]

----------------------------------------------------------------------------
(* Ticks that fire while an earlier write is outstanding                   *)

OverlapTicks == 8
OverlapPending == 2
OverlapLog == Len(InitCommands) + OverlapTicks + OverlapPending

\* every write resolves, sooner or later
NextOverlap ==
    \/ \E t \in DOMAIN timers : Tick(t, OverlapTicks, OverlapLog, OverlapPending)
    \/ \E t \in DOMAIN timers, q \in {"p", "s"} : TickWriteOk(t, q)

SpecOverlap == InitPoll /\ [][NextOverlap]_vars

\* C15: every tick issues one query and moves one cursor on by one, also
\* when the write of the tick before it is still outstanding: the PIDs
\* written are those written when every write completes before the next
\* tick, none twice and none skipped.
C15_OverlapSameSequence ==
    \A i \in DOMAIN Polled : Polled[i] = Scheduled(i - 1)

----------------------------------------------------------------------------
(* Framing and decoding of drawn responses                                 *)

MaxPayload == 4

Prefixes == { <<"4","1">>, <<"0","1">> }
Pids == { <<"0","D">>, <<"0","C">>, <<"2","D">>, <<"0","d">>, <<"A","B">> }
PayloadChars == {"1", "Z"}
Payloads == UNION { [1..n -> PayloadChars] : n \in 0..MaxPayload }

\* the reply as adapters with spaces and line ends switched on send it
RECURSIVE Spaced(_)
Spaced(r) ==
    IF Len(r) <= 2 THEN r \o <<"\r">>
    ELSE SubSeq(r, 1, 2) \o <<" ">> \o Spaced(SubSeq(r, 3, Len(r)))

Plain == { pre \o pid \o pay : pre \in Prefixes, pid \in Pids, pay \in Payloads }

Literals ==
    { <<"N","O","D","A","T","A">>,
      <<"0","1","0","C">>,
      <<"4","1">>,
      <<"4","1","0","D","Z","Z">>,
      <<"4","1","0","D","1","E">> }

Responses == Plain \cup { Spaced(r) : r \in Plain } \cup Literals

\* r cut in two at every place, the terminator closing the second chunk
SplitDeliveries ==
    UNION { { << SubSeq(r, 1, k), SubSeq(r, k + 1, Len(r)) \o <<Terminator>> >> :
                k \in 0..Len(r) } : r \in Responses }

WholeDeliveries == { << r \o <<Terminator>> >> : r \in Responses }

BatchResponses ==
    { <<"4","1","0","D","1","E">>,
      <<"4","1","0","D","2","8">>,
      <<" ","4","1"," ","0","C"," ","1","A"," ","F","8","\r">>,
      <<"N","O","D","A","T","A">>,
      <<"4","1","0","5","7","B">> }

Batch(a, b, c) == a \o <<Terminator>> \o b \o <<Terminator>> \o c \o <<Terminator>>

BatchDeliveries == { << Batch(a, b, c) >> : a, b, c \in BatchResponses }

\* a snapshot a ready session holds after a speed and an RPM reply
FrameSnapshot == [ConnectedData EXCEPT !.speed = 30, !.rpm = 1726]

InitFrame ==
    /\ ConnectedService
    /\ data = FrameSnapshot /\ data0 = FrameSnapshot
    /\ sent \in SplitDeliveries \cup WholeDeliveries \cup BatchDeliveries
    /\ chunks = sent

Deliver ==
    /\ chunks # <<>>
    /\ Notification("d1", Head(chunks), NoPlan)
    /\ chunks' = Tail(chunks)

NextFrame == Deliver

SpecFrame == InitFrame /\ [][NextFrame]_vars

----------------------------------------------------------------------------
(* Claims about framing and decoding                                       *)

Delivered2 == Len(sent) = 2 /\ chunks = <<>>
Delivered1 == Len(sent) = 1 /\ chunks = <<>>

\* C3: from an empty buffer, a response without terminator delivered as r1 and
\* then r2 followed by '>' is decoded as, and leaves the snapshot and the
\* buffer as, r followed by '>' delivered in one chunk does.
C3_SplitEqualsWhole ==
    Delivered2 =>
        LET whole == handleResponse(<<>>, data0, <<>>, sent[1] \o sent[2], NoPlan)
        IN  /\ data = whole.data
            /\ responseBuffer = whole.responseBuffer
            /\ decoded = whole.decoded
            /\ published = 1 + whole.publishes

\* a split inside the payload of a reply that decodes
C3_Witness ==
    /\ Delivered2
    /\ Len(sent[1]) >= 5
    /\ Len(sent[2]) >= 2
    /\ data # data0

NeededLen(pid) ==
    IF pid \in { <<"0","C">>, <<"5","E">>, <<"1","0">>, <<"6","3">>,
                 <<"4","2">>, <<"1","F">> } THEN 4
    ELSE IF pid \in { <<"0","D">>, <<"0","5">>, <<"0","4">>, <<"1","1">>,
                      <<"2","F">>, <<"0","A">>, <<"0","B">>, <<"0","F">>,
                      <<"3","3">>, <<"5","C">>, <<"4","6">>, <<"6","2">>,
                      <<"4","9">>, <<"2","C">>, <<"2","D">> } THEN 2
    ELSE 0

\* a well-formed Mode-01 reply: 41, a PID, then hex characters only, at least
\* as many as the PID needs
WellFormed(r) ==
    LET clean == Clean(r)
        payload == Substring(clean, 4, Len(clean))
    IN  /\ StartsWith(clean, <<"4", "1">>)
        /\ Len(clean) >= 4
        /\ \A i \in 1..Len(payload) : IsHex(payload[i])
        /\ Len(payload) >= NeededLen(Substring(clean, 2, 4))

\* the single response of a one-chunk delivery
OnlyResponse == SubSeq(sent[1], 1, Len(sent[1]) - 1)
IsSingle == Delivered1 /\ ~Includes(OnlyResponse, Terminator)

\* C5: a response that is not a well-formed Mode-01 reply (NODATA, an echo, a
\* short payload, a payload with non-hex characters) leaves every snapshot
\* field unchanged.
C5_MalformedIgnored ==
    (IsSingle /\ ~WellFormed(OnlyResponse)) => data = data0

----------------------------------------------------------------------------
(* The store and its subscribers during one session                        *)

MaxPublished == 3

\* a reply for the speed PID, terminated
StoreChunks == { <<"4", "1", "0", "D", "1", "E", ">">> }

InitStore ==
    /\ Connected
    /\ chunks = <<>> /\ sent = <<>> /\ data0 = ConnectedData

NextStore ==
    \/ \E o \in Obs, act \in {NoAct} \cup Obs : Subscribe(o, act)
    \/ \E o \in Obs : UnsubscribeCall(o)
    \/ \E c \in StoreChunks, plan \in Plans :
           published < MaxPublished /\ Notification("d1", c, plan) /\ UNCHANGED chunks
    \/ \E plan \in Plans : published < MaxPublished /\ DisconnectCall(plan)
    \/ \E plan \in Plans : CancelOk(plan)

SpecStore == InitStore /\ [][NextStore]_vars

\* consumers that keep, read and write what the store hands them
NextAlias ==
    \/ \E o \in Obs : Subscribe(o, NoAct)
    \/ \E o \in Obs : UnsubscribeCall(o)
    \/ \E o \in Obs : GetData(o)
    \/ \E o \in Obs : ConsumerMutate(o)
    \/ \E c \in StoreChunks :
           published < MaxPublished /\ Notification("d1", c, NoPlan) /\ UNCHANGED chunks
    \/ published < MaxPublished /\ DisconnectCall(NoPlan)
    \/ CancelOk(NoPlan)

SpecAlias == InitStore /\ [][NextAlias]_vars

----------------------------------------------------------------------------
(* Claims about the store                                                  *)

\* the observers called by a publish, in call order
Recipients(dels) == [i \in DOMAIN dels |-> dels[i].to]

PublishStep == published' = published + 1
SubscribeStep(o) == \E act \in {NoAct} \cup Obs : Subscribe(o, act)

\* C7: subscribe(o) calls o exactly once, with the current snapshot, and
\* returns an unsubscribe handle; calling that handle takes o out of the
\* subscribers and leaves the others in; a publish calls nobody who is not
\* subscribed and everybody who stays subscribed.
C7_SubscribeContract ==
    [][ /\ \A o \in Obs : SubscribeStep(o) =>
               /\ Len(deliveries') = 1
               /\ deliveries'[1].to = o
               /\ deliveries'[1].val = data
               /\ deliveries'[1].via = "subscribe"
               /\ o \in handles'
        /\ \A o \in Obs : UnsubscribeCall(o) =>
               /\ deliveries' = <<>>
               /\ Range(listeners') = Range(listeners) \ {o}
        /\ PublishStep =>
               /\ \A i \in DOMAIN deliveries' : deliveries'[i].via = "publish"
               /\ Range(Recipients(deliveries')) \subseteq Range(listeners)
               /\ Range(listeners') \subseteq Range(Recipients(deliveries'))
      ]_vars

\* observer 1 subscribed before anything was decoded, then unsubscribed; a
\* later publish reached observer 2 and not observer 1
C7_Witness ==
    /\ 1 \in handles
    /\ held[1].kind # "none"
    /\ 1 \notin Range(listeners)
    /\ 2 \in Range(listeners)
    /\ data.speed = 30
    /\ Recipients(deliveries) = <<2>>

\* C8: every snapshot handed to a consumer is a copy distinct from the
\* store's live record: no consumer holds the live record, and a consumer
\* writing to what it received changes neither the store's snapshot nor what
\* another consumer holds.
C8_ConsumersHoldCopies ==
    [][ /\ \A o \in Obs : ~(held'[o].kind = "live" /\ held'[o].id = dataId')
        /\ \A o \in Obs : ConsumerMutate(o) =>
               /\ data' = data
               /\ \A c \in Obs \ {o} : held'[c] = held[c]
      ]_vars

\* C9: whatever unsubscribe handles the callbacks call during a publish, the
\* observers called are the subscribers registered when the publish started,
\* each once per registration, in registration order.
C9_StablePublish ==
    [][ PublishStep => Recipients(deliveries') = listeners ]_vars

\* a publish to two subscribers during which a subscription was cancelled
C9_Witness ==
    /\ Len(deliveries) >= 2
    /\ deliveries[1].via = "publish"
    /\ deliveries[1].to # deliveries[2].to
    /\ \E i \in DOMAIN deliveries : deliveries[i].to \notin Range(listeners)

\* C10: disconnect() called directly after a disconnect() that completed is a
\* no-op: session state and snapshot stay as they are, no transport call is
\* made and no subscriber is called.
C10_SecondDisconnectNoOp ==
    [][ (lastOp = "disconnect_ok" /\ \E plan \in Plans : DisconnectCall(plan)) =>
            /\ session' = session
            /\ data' = data
            /\ linked' = linked /\ written' = written
            /\ deliveries' = <<>>
      ]_vars

----------------------------------------------------------------------------
(* Claims about sessions that receive data                                 *)

NumericFields == DOMAIN INITIAL_OBD_DATA \ {"isConnected", "deviceName"}

\* the case of parseOBDResponse that assigns the field
FieldPid(f) ==
    CASE f = "rpm" -> <<"0","C">>
      [] f = "speed" -> <<"0","D">>
      [] f = "coolantTemp" -> <<"0","5">>
      [] f = "engineLoad" -> <<"0","4">>
      [] f = "throttlePosition" -> <<"1","1">>
      [] f = "fuelLevel" -> <<"2","F">>
      [] f = "fuelRate" -> <<"5","E">>
      [] f = "fuelPressure" -> <<"0","A">>
      [] f = "boostPressure" -> <<"0","B">>
      [] f = "mafRate" -> <<"1","0">>
      [] f = "intakeAirTemp" -> <<"0","F">>
      [] f = "barometricPressure" -> <<"3","3">>
      [] f = "oilTemp" -> <<"5","C">>
      [] f = "ambientTemp" -> <<"4","6">>
      [] f = "actualTorque" -> <<"6","2">>
      [] f = "referenceTorque" -> <<"6","3">>
      [] f = "acceleratorPosition" -> <<"4","9">>
      [] f = "egrCommanded" -> <<"2","C">>
      [] f = "egrError" -> <<"2","D">>
      [] f = "batteryVoltage" -> <<"4","2">>
      [] f = "runTime" -> <<"1","F">>

\* response r is a Mode-01 reply for the PID of field f with the payload
\* length that PID's case asks for
DecodesField(f, r) ==
    LET clean == Clean(r)
    IN  /\ StartsWith(clean, <<"4", "1">>)
        /\ Substring(clean, 2, 4) = FieldPid(f)
        /\ Len(clean) - 4 >= NeededLen(FieldPid(f))

\* a numeric field changes only in a step that decodes a reply for its PID, or
\* in the reset that ends a session
C12_ChangesOnlyByDecode ==
    \A f \in NumericFields :
        data'[f] # data[f] =>
            \/ \E i \in DOMAIN decoded' : DecodesField(f, decoded'[i])
            \/ lastOp' = "disconnect_ok" /\ data' = INITIAL_OBD_DATA

\* a session starts with every numeric field 0
C12_StartsAtZero ==
    (\E d \in Devices : ConnectCall(d)) => \A f \in NumericFields : data'[f] = 0

\* C12: within one session every numeric field is 0 until the first decode
\* of a reply for that field's PID, and changes only through such a decode:
\* ticks, failed writes and discarded responses leave it as it is.
C12_ZeroUntilDecoded ==
    [][ C12_StartsAtZero /\ C12_ChangesOnlyByDecode ]_vars

\* C17: once disconnect() has been called, a chunk that arrives afterwards is
\* dropped: it changes no snapshot field and nothing is published.
C17_LateChunkDropped ==
    [][ (session = "disconnecting"
         /\ \E c \in SessionChunks : Notification("d1", c, NoPlan)) =>
            /\ data' = data
            /\ published' = published
      ]_vars

\* C18: disconnect() empties the response buffer, so that nothing received
\* before it can become part of a frame of a later session.
C18_DisconnectEmptiesBuffer ==
    lastOp = "disconnect_ok" => responseBuffer = <<>>

----------------------------------------------------------------------------
(* A stream of responses cut into chunks                                   *)

MaxCuts == 2

StreamResponses ==
    { <<"4","1","0","D","1","E">>,
      <<"4","1","0","C","1","A","F","8">>,
      <<"N","O","D","A","T","A">> }

\* two responses, each followed by the terminator
Streams ==
    { a \o <<Terminator>> \o b \o <<Terminator>> : a, b \in StreamResponses }

\* s as it arrives in at most k + 1 chunks, none of them empty
RECURSIVE CutsOf(_, _)
CutsOf(s, k) ==
    IF k = 0 THEN { <<s>> }
    ELSE { <<s>> } \cup
         UNION { { <<SubSeq(s, 1, i)>> \o rest :
                       rest \in CutsOf(SubSeq(s, i + 1, Len(s)), k - 1) } :
                 i \in 1..(Len(s) - 1) }

InitCut ==
    /\ ConnectedService
    /\ data = ConnectedData /\ data0 = ConnectedData
    /\ sent \in UNION { CutsOf(st, MaxCuts) : st \in Streams }
    /\ chunks = sent

SpecCut == InitCut /\ [][NextFrame]_vars

RECURSIVE Concat(_)
Concat(seqs) == IF seqs = <<>> THEN <<>> ELSE Head(seqs) \o Concat(Tail(seqs))

\* C19: however a stream of terminated responses is cut into chunks, once all
\* chunks have arrived the snapshot is the one the whole stream leaves when
\* it arrives as a single chunk (the same responses having been decoded), and
\* nothing is left in the buffer.
C19_CutsEqualWhole ==
    chunks = <<>> =>
        LET whole == handleResponse(<<>>, data0, <<>>, Concat(sent), NoPlan)
        IN  /\ data = whole.data
            /\ responseBuffer = whole.responseBuffer

----------------------------------------------------------------------------
(* Listeners that throw                                                    *)

ThrowBuffer == 14

\* each registered listener returns or throws when it is called
ThrowPlans ==
    {p \in [Obs -> {NoAct, Throws}] :
        \A o \in Obs : p[o] = NoAct \/ o \in Range(listeners)}

NextThrow ==
    \/ \E o \in Obs : Subscribe(o, NoAct)
    \/ \E o \in Obs : UnsubscribeCall(o)
    \/ \E c \in StoreChunks, plan \in ThrowPlans :
           /\ published < MaxPublished
           /\ Len(responseBuffer) + Len(c) <= ThrowBuffer
           /\ Notification("d1", c, plan)
           /\ UNCHANGED chunks

SpecThrow == InitStore /\ [][NextThrow]_vars

\* C20: after handleResponse has processed a chunk the response buffer holds
\* no terminator, whatever the segments contain and whatever the listeners'
\* callbacks do, throwing included.
C20_NoTerminatorLeft == ~Includes(responseBuffer, Terminator)

----------------------------------------------------------------------------
(* Two-byte PIDs over all 16-bit payloads                                  *)

\* the PIDs whose case reads two bytes
TwoBytePids ==
    { <<"0","C">>, <<"5","E">>, <<"1","0">>, <<"4","2">>, <<"6","3">>, <<"1","F">> }

HexChars ==
    <<"0","1","2","3","4","5","6","7","8","9","A","B","C","D","E","F">>

\* the four hex characters an adapter sends for the 16-bit value v
Hex4(v) ==
    << HexChars[(v \div 4096) + 1], HexChars[((v \div 256) % 16) + 1],
       HexChars[((v \div 16) % 16) + 1], HexChars[(v % 16) + 1] >>

Word == 0..(2^16 - 1)

InitScale ==
    /\ ConnectedService
    /\ data = ConnectedData /\ data0 = ConnectedData
    /\ \E pid \in TwoBytePids, v \in Word :
           sent = << <<"4", "1">> \o pid \o Hex4(v) \o <<Terminator>> >>
    /\ chunks = sent

SpecScale == InitScale /\ [][NextFrame]_vars

\* the payload of the reply that was delivered, and the 16-bit value it encodes
ScalePid == SubSeq(sent[1], 3, 4)
ScalePayload == SubSeq(sent[1], 5, 8)
DigitOf(c) == CHOOSE k \in 0..15 : HexChars[k + 1] = c
RawValue ==
    4096 * DigitOf(ScalePayload[1]) + 256 * DigitOf(ScalePayload[2])
        + 16 * DigitOf(ScalePayload[3]) + DigitOf(ScalePayload[4])

\* the decoded field taken back to a raw integer by the inverse of the PID's
\* scaling: rpm * 4, L/h * 20, g/s * 100, V * 1000 (the three fields with one
\* decimal are held in tenths), torque and run time as they are
Reencoded(pid, d) ==
    CASE pid = <<"0","C">> -> d.rpm * 4
      [] pid = <<"5","E">> -> d.fuelRate * 2
      [] pid = <<"1","0">> -> d.mafRate * 10
      [] pid = <<"4","2">> -> d.batteryVoltage * 100
      [] pid = <<"6","3">> -> d.referenceTorque
      [] pid = <<"1","F">> -> d.runTime

Distance(a, b) == IF a >= b THEN a - b ELSE b - a

\* C13 as stated: for every two-byte PID and every 16-bit payload, the decoded
\* field taken back to a raw integer is within 1 of the payload value.
C13_Original ==
    chunks = <<>> => Distance(Reencoded(ScalePid, data), RawValue) <= 1

\* half the step of the rounding in each PID's case
Tolerance(pid) ==
    CASE pid = <<"0","C">> -> 2
      [] pid = <<"5","E">> -> 1
      [] pid = <<"1","0">> -> 5
      [] pid = <<"4","2">> -> 50
      [] pid = <<"6","3">> -> 0
      [] pid = <<"1","F">> -> 0

\* C13 amended: for every two-byte PID and every 16-bit payload value v, the
\* decoded field taken back to a raw integer is within 2 of v for RPM (0C),
\* within 1 for fuel rate (5E), within 5 for MAF (10), within 50 for battery
\* voltage (42), and is v itself for reference torque (63) and run time (1F).
C13_RoundTripBounds ==
    chunks = <<>> =>
        Distance(Reencoded(ScalePid, data), RawValue) <= Tolerance(ScalePid)

\* battery voltage 0x0032 = 50 mV is shown as 0.1 V, which is 100 mV
C13_Witness ==
    /\ chunks = <<>>
    /\ ScalePid = <<"4","2">>
    /\ RawValue = 50
    /\ data.batteryVoltage = 1
    /\ Distance(Reencoded(ScalePid, data), RawValue) = 50

----------------------------------------------------------------------------
(* The initialisation sequence                                             *)

\* connectToDevice returns normally in this step (lines 444-449 have run)
BecomesReady == conn.pc # "idle" /\ conn'.pc = "idle" /\ lastOp' = "connect_ok"

\* C21: from the start of connectToDevice until the session becomes ready the
\* commands written to the adapter are exactly ATZ, ATE0, ATL0, ATS0, ATH0,
\* ATSP0, each once and in that order, with no other command (such as a
\* polling query) written in between.  Stated for the connections that end
\* with a write characteristic.
C21_InitSequenceExact ==
    [][(BecomesReady /\ writeCharacteristic' # "null") => written' = InitCommands]_vars

\* connectToDevice alone, on either device, with every await able to reject
NextInit ==
    \/ \E d \in Devices : nextTimer <= MaxTimers /\ ConnectCall(d)
    \/ ConnectOk
    \/ ConnectFail
    \/ DiscoverOk
    \/ DiscoverFail
    \/ InitWriteOk
    \/ InitWriteFail
    \/ DelayDone

SpecInit == Init /\ [][NextInit]_vars

\* initializeAdapter issues a command other than ATZ in this step
WritesNextInit == conn'.pc = "writing" /\ conn'.step > 1 /\ conn'.step # conn.step

\* C22: during initialisation each command after the first is written only
\* after the response to the previous command has been framed or a fixed
\* delay has elapsed, never merely because the previous write call completed.
C22_WaitsForResponse ==
    [][WritesNextInit => (decoded # <<>> \/ conn.pc = "delay")]_vars

\* a write of initializeAdapter rejects in this step
InitStepFails == conn.pc = "writing" /\ lastOp' = "connect_err"

\* C23: when a step of the initialisation sequence fails, connectToDevice
\* leaves the session unconnected: no device held, no write characteristic,
\* no notification monitor, isConnected false and no polling timer.
C23_FailureLeavesUnconnected ==
    [][InitStepFails =>
          /\ device' = "null"
          /\ writeCharacteristic' = "null"
          /\ monitors' = {}
          /\ ~data'.isConnected
          /\ DOMAIN timers' = {}]_vars

\* the delay after ATZ is over and sendCommand("ATE0") runs with no write
\* characteristic
WritesWithoutPeer == conn.pc = "delay" /\ conn'.pc # "delay" /\ writeCharacteristic = "null"

\* C24: a command write attempted while there is no write characteristic
\* fails with an error that its caller sees, so connectToDevice fails too.
C24_WriteWithoutPeerFails ==
    [][WritesWithoutPeer => lastOp' = "connect_err"]_vars

IsInitCommand(c) == c \in Range(InitCommands)

\* C29: isConnected becomes true only after all six initialisation commands
\* have been written, and a connection to a device without a writable
\* characteristic never becomes ready.
C29_ReadyOnlyAfterInitWritten ==
    [][BecomesReady =>
          /\ SelectSeq(written', IsInitCommand) = InitCommands
          /\ conn.dev \in Writable]_vars

----------------------------------------------------------------------------
(* A polling tick whose write is rejected                                  *)

\* C25: when the write of a polling tick fails the session is not torn down:
\* the snapshot with isConnected, the polling timer and the write
\* characteristic are unchanged, the cursors and the cycle counter of the
\* timer are not advanced, and the next tick can fire and queries the PID
\* the cursors still point at.
C25_FailedTickKeepsSession ==
    [][\A t \in DOMAIN timers, q \in {"p", "s"} :
          TickWriteFail(t, q) =>
              /\ data' = data
              /\ data'.isConnected
              /\ pollingInterval' = pollingInterval
              /\ DOMAIN timers' = DOMAIN timers
              /\ writeCharacteristic' # "null"
              /\ timers'[t].priorityIndex = timers[t].priorityIndex
              /\ timers'[t].secondaryIndex = timers[t].secondaryIndex
              /\ timers'[t].cycleCount = timers[t].cycleCount
              /\ (~timers[t].overlapped) =>
                     TickPid(timers'[t]) = written[Len(written)]]_vars

\* the first write was rejected and the next tick has asked for the same PID
C25_Witness ==
    /\ Polled = <<priorityPids[1], priorityPids[1]>>
    /\ timers[1].cycleCount = 0
    /\ timers[1].pendingP = 1
    /\ ~timers[1].overlapped
    /\ data.isConnected

----------------------------------------------------------------------------
(* One reply for each PID of the decode table                              *)

TablePids == { FieldPid(f) : f \in NumericFields } \cup { <<"A","B">>, <<"0","0">> }
TableChars == {"0", "8", "F"}
TablePayloads == UNION { [1..n -> TableChars] : n \in 2..MaxPayload }
TableReplies == { <<"4","1">> \o pid \o pay : pid \in TablePids, pay \in TablePayloads }

InitTable ==
    /\ ConnectedService
    /\ data = FrameSnapshot /\ data0 = FrameSnapshot
    /\ \E r \in TableReplies \cup { Spaced(x) : x \in TableReplies } :
           sent = << r \o <<Terminator>> >>
    /\ chunks = sent

SpecTable == InitTable /\ [][NextFrame]_vars

ReplyPid == Substring(Clean(OnlyResponse), 2, 4)

\* C26: a well-formed Mode-01 reply assigns the field its PID targets and
\* leaves every other field of the snapshot, isConnected and deviceName
\* included, as it was; a reply whose PID is not in the table leaves every
\* field as it was.
C26_ReplySetsOnlyItsField ==
    (chunks = <<>> /\ WellFormed(OnlyResponse)) =>
        \A f \in DOMAIN data :
            IF f \in NumericFields /\ FieldPid(f) = ReplyPid
            THEN data[f] # NaN
            ELSE data[f] = data0[f]

\* a coolant temperature reply has been decoded: that field moved, no other
C26_Witness ==
    /\ chunks = <<>>
    /\ WellFormed(OnlyResponse)
    /\ ReplyPid = <<"0","5">>
    /\ data.coolantTemp # data0.coolantTemp
    /\ \A f \in DOMAIN data \ {"coolantTemp"} : data[f] = data0[f]

----------------------------------------------------------------------------
(* How often a secondary PID is queried                                    *)

\* the ticks of one round of the secondary queue
Round == 5 * Len(secondaryPids)

\* C27: while every write completes within its tick, any five consecutive
\* ticks hold exactly one secondary query, and any n x 5 consecutive ticks,
\* n the length of the secondary queue, hold each secondary PID exactly once.
C27_SecondaryOncePerRound ==
    InStep(timers[1]) =>
        /\ \A s \in 1..(Len(Polled) - 4) :
               Cardinality({ i \in s..(s + 4) : Polled[i] \in Range(secondaryPids) }) = 1
        /\ \A s \in 1..(Len(Polled) - Round + 1), j \in DOMAIN secondaryPids :
               Cardinality({ i \in s..(s + Round - 1) : Polled[i] = secondaryPids[j] }) = 1

\* forty-six ticks in step, the last one outstanding: two full rounds overlap
C27_Witness ==
    /\ InStep(timers[1])
    /\ Len(Polled) = Round + 1
    /\ timers[1].pendingP = 1
    /\ Polled[5] = secondaryPids[1]
    /\ Polled[Round] = secondaryPids[Len(secondaryPids)]

----------------------------------------------------------------------------
(* scanForDevices and stopScan                                             *)

MaxScans == 2
MaxFound == 1

\* scan.calls[c] is the promise of call c: "asking" while requestPermissions
\* is awaited, then "pending", "resolved" or "rejected"; scan.found[c] counts
\* the onDeviceFound calls made for c; scan.active is the call whose listener
\* the BleManager feeds; scan.armed holds the calls whose setTimeout is live;
\* scan.stopped and scan.expired record how the scan of a call was ended
scanRest == <<svcVars, envVars, session, held, lastOp, sent, data0>>

\* scanForDevices(onDeviceFound) up to await this.requestPermissions()
ScanCall ==
    /\ Len(scan.calls) < MaxScans
    /\ scan' = [scan EXCEPT !.calls = Append(scan.calls, "asking"),
                            !.found = Append(scan.found, 0)]
    /\ Quiet
    /\ UNCHANGED scanRest

\* permissions granted: startDeviceScan (which replaces the scan the manager
\* was running) and setTimeout(..., 10000)
ScanGranted(c) ==
    /\ c \in DOMAIN scan.calls
    /\ scan.calls[c] = "asking"
    /\ scan' = [scan EXCEPT !.calls[c] = "pending",
                            !.active = c,
                            !.armed = scan.armed \cup {c}]
    /\ Quiet
    /\ UNCHANGED scanRest

\* permissions refused: throw new Error('Bluetooth permissions not granted')
ScanDenied(c) ==
    /\ c \in DOMAIN scan.calls
    /\ scan.calls[c] = "asking"
    /\ scan' = [scan EXCEPT !.calls[c] = "rejected"]
    /\ Quiet
    /\ UNCHANGED scanRest

\* the scan listener of call c gets a device with an adapter's name
DeviceFound(c) ==
    /\ scan.active = c
    /\ c \in DOMAIN scan.calls
    /\ scan.found[c] < MaxFound
    /\ scan' = [scan EXCEPT !.found[c] = scan.found[c] + 1]
    /\ Quiet
    /\ UNCHANGED scanRest

\* the scan listener of call c gets an error: reject(error), which does
\* nothing to a settled promise; the manager may or may not go on scanning
ScanError(c) ==
    /\ scan.active = c
    /\ c \in DOMAIN scan.calls
    /\ \E a \in {0, c} :
           scan' = [scan EXCEPT !.active = a,
                                !.calls[c] = IF scan.calls[c] = "pending"
                                             THEN "rejected" ELSE scan.calls[c]]
    /\ Quiet
    /\ UNCHANGED scanRest

\* stopScan(): this.bleManager?.stopDeviceScan()
StopScan ==
    /\ scan' = [scan EXCEPT !.active = 0,
                            !.stopped = IF scan.active = 0 THEN scan.stopped
                                        ELSE scan.stopped \cup {scan.active}]
    /\ Quiet
    /\ UNCHANGED scanRest

\* the timeout of call c fires: this.bleManager.stopDeviceScan(); resolve()
ScanTimeout(c) ==
    /\ c \in scan.armed
    /\ scan' = [scan EXCEPT !.active = 0,
                            !.armed = scan.armed \ {c},
                            !.expired = scan.expired \cup {c},
                            !.calls[c] = IF scan.calls[c] = "pending"
                                         THEN "resolved" ELSE scan.calls[c]]
    /\ Quiet
    /\ UNCHANGED scanRest

NextScan ==
    \/ ScanCall
    \/ \E c \in 1..MaxScans : ScanGranted(c)
    \/ \E c \in 1..MaxScans : ScanDenied(c)
    \/ \E c \in 1..MaxScans : DeviceFound(c)
    \/ \E c \in 1..MaxScans : ScanError(c)
    \/ StopScan
    \/ \E c \in 1..MaxScans : ScanTimeout(c)

SpecScan == Init /\ [][NextScan]_vars

\* C28: a scan ends when its window elapses or when stopScan() is called,
\* whichever comes first; from then on its listener is fed no device and the
\* scanForDevices call has completed.
C28_ScanEndsOnStopOrTimeout ==
    \A c \in scan.stopped \cup scan.expired :
        /\ scan.active # c
        /\ scan.calls[c] # "pending"

\* the timeout armed by call c fires in this step
TimeoutFires(c) == c \in scan.armed /\ c \notin scan'.armed

\* C30: the timer armed by one scanForDevices call ends only the scan of that
\* call: when that scan was stopped early with stopScan() and the timer
\* fires while the scan of a later call is running, the later scan goes on.
C30_TimerEndsOwnScanOnly ==
    [][\A c \in 1..MaxScans :
          (TimeoutFires(c) /\ c \in scan.stopped /\ scan.active \notin {0, c}) =>
              scan'.active = scan.active]_vars

====
